---- MODULE Spec2Model ----
(***************************************************************************)
(* State-machine model of ScreenRecorder (src/recorder.py) together with   *)
(* the collaborators it touches: the settings object (src/settings.py),    *)
(* the videos table (src/database.py), the ffmpeg backend processes it     *)
(* spawns and the files they write.  Every recorder method is one action:  *)
(* all callers run on the Tk event loop, so a method runs to completion    *)
(* before the next one starts.  What the operating system and the backend  *)
(* decide (spawn failure, the backend exiting or not within the wait, a    *)
(* failing write, a failing kill, a failing deletion, the outcome of the   *)
(* concatenation, a failing insert) is an input drawn with \E.             *)
(***************************************************************************)
EXTENDS Integers, Sequences, FiniteSets, TLC

VARIABLES
    current_mode,             \* self.current_mode: "None", "fulltime", "buffer"
    ffmpeg_process,           \* self.ffmpeg_process: the Popen object or NoProcess
    current_output_file,      \* self.current_output_file: NoPath is None
    output_dir,               \* settings._settings["output_dir"]
    buffer_duration_minutes,  \* settings._settings["buffer_duration_minutes"]
    clock,                    \* wall clock, in seconds (datetime.now())
    fs_time,                  \* file-system modification-time counter
    spawned,                  \* number of backend processes spawned so far
    deletion_failures,        \* number of os.remove calls that have failed
    settings_changes,         \* number of settings the user has changed
    procs,                    \* the backend processes that are alive
    buffer_dir,               \* the files in <app_data_dir>/.buffer
    out_files,                \* the files that exist under the output dirs
    db_rows,                  \* the rows of the videos table
    call,                     \* the recorder call that has just returned
    _hw_encoder,              \* self._hw_encoder: "unset" before it is assigned
    encoder_tests,            \* the encoder tests __init__ has run, in order
    _audio_device,            \* self._audio_device: NoDevice is None
    audio_listing,            \* what the device listing of __init__ gave
    tk_queue,                 \* the callbacks waiting on the Tk event loop
    running,                  \* the handlers being executed, with their thread
    root,                     \* main_window.root: "alive" or "destroyed"
    overlay_window,           \* overlay.root: "alive" or "destroyed"
    hooked,                   \* whether the global hotkeys are registered
    tray_icon,                \* whether the tray icon is running
    handled,                  \* the handler that finished last
    overlay_status            \* the text of the overlay's status label

vars == <<current_mode, ffmpeg_process, current_output_file,
          output_dir, buffer_duration_minutes, clock, fs_time, spawned, procs,
          deletion_failures, settings_changes, buffer_dir, out_files, db_rows,
          call, _hw_encoder, encoder_tests, _audio_device, audio_listing,
          tk_queue, running, root, overlay_window, hooked, tray_icon, handled,
          overlay_status>>

recorder_state == <<current_mode, ffmpeg_process, current_output_file>>
backend_state == <<spawned, procs>>
settings_state == <<output_dir, buffer_duration_minutes, settings_changes>>
probe_state == <<_hw_encoder, encoder_tests, _audio_device, audio_listing>>
app_state == <<tk_queue, running, root, overlay_window, hooked, tray_icon, handled,
               overlay_status>>

-----------------------------------------------------------------------------
(* Bounds of the model                                                     *)

MaxSessions == 2        \* backend processes spawned in one behaviour
MaxClock == 1           \* last second of the wall clock
MaxSegmentWrites == 1   \* segment files one backend writes
MaxDeletionFailures == 1 \* failing deletions in one behaviour
MaxSettingsChanges == 1  \* settings changed in one behaviour
MaxRingLaps == 2         \* times a backend goes round its ring (RingSpec)
MaxLines == 2            \* lines of a device listing (ProbeSpec)
MaxPending == 2          \* callbacks waiting on the Tk event loop (AppSpec)

(* Program constants                                                       *)

segment_duration == 10  \* self.segment_duration
StopWaitTimeout == 5    \* self.ffmpeg_process.wait(timeout=5)
QuitBytes == 1          \* len(b'q')
DefaultBufferMinutes == 5

OutputDirs == {1, 2}
MinuteInputs == {31}

NoneMode == "None"
NoPath == <<>>

SegmentPattern == <<0, "buffer_%04d", 0>>

\* a device name is the sequence of its words; None is the empty name
NoDevice == <<>>

-----------------------------------------------------------------------------
(* ScreenRecorder._build_ffmpeg_cmd                                        *)

\* " ".join(words): the name as the one string the backend is given
RECURSIVE Join(_)
Join(words) ==
    IF Len(words) = 0 THEN ""
    ELSE IF Len(words) = 1 THEN words[1]
    ELSE words[1] \o " " \o Join(Tail(words))

\* a path of the model as the string that ends the argument list
PathArg(path) == ToString(path)

\* if self._audio_device: cmd.extend(["-f", "dshow", "-i", f"audio={...}"])
AudioInputArgs(device) ==
    IF device # NoDevice
    THEN <<"-f", "dshow", "-i", "audio=" \o Join(device)>>
    ELSE <<>>

\* the if / elif / elif / else over self._hw_encoder
VideoEncoderArgs(encoder) ==
    CASE encoder = "h264_nvenc" ->
            <<"-c:v", "h264_nvenc", "-preset", "p1", "-tune", "ll",
              "-rc", "vbr", "-cq", "23", "-pix_fmt", "yuv420p">>
      [] encoder = "h264_amf" ->
            <<"-c:v", "h264_amf", "-quality", "speed", "-rc", "vbr_latency",
              "-qp_i", "23", "-qp_p", "23", "-pix_fmt", "yuv420p">>
      [] encoder = "h264_qsv" ->
            <<"-c:v", "h264_qsv", "-preset", "veryfast",
              "-global_quality", "23", "-pix_fmt", "nv12">>
      [] OTHER ->
            <<"-c:v", "libx264", "-preset", "ultrafast", "-crf", "23",
              "-pix_fmt", "yuv420p">>

\* (AudioCodecArgs with a fault) the audio codec is named for every capture
AudioCodecArgsAlways(device) == <<"-c:a", "aac", "-b:a", "192k">>

\* if self._audio_device: cmd.extend(["-c:a", "aac", "-b:a", "192k"])
AudioCodecArgs(device) ==
    IF device # NoDevice THEN <<"-c:a", "aac", "-b:a", "192k">> ELSE <<>>

\* if is_segment: cmd.extend(["-f", "segment", "-segment_time", ...])
SegmentArgs(is_segment, max_segments) ==
    IF is_segment
    THEN <<"-f", "segment", "-segment_time", ToString(segment_duration),
           "-segment_wrap", ToString(max_segments), "-reset_timestamps", "1">>
    ELSE <<>>

\* (_build_ffmpeg_cmd with a fault) segmented captures always use libx264
_build_ffmpeg_cmd_software_segments(output_path, is_segment, max_segments) ==
    <<"ffmpeg", "-f", "gdigrab", "-framerate", "30", "-i", "desktop">>
        \o AudioInputArgs(_audio_device)
        \o VideoEncoderArgs(IF is_segment THEN "libx264" ELSE _hw_encoder)
        \o AudioCodecArgs(_audio_device)
        \o SegmentArgs(is_segment, max_segments)
        \o <<"-y", PathArg(output_path)>>

\* cmd = ["ffmpeg"], extended in turn by the video input, the audio input,
\* the encoder, the audio codec, the segmentation options and the target
_build_ffmpeg_cmd(output_path, is_segment, max_segments) ==
    <<"ffmpeg", "-f", "gdigrab", "-framerate", "30", "-i", "desktop">>
        \o AudioInputArgs(_audio_device)
        \o VideoEncoderArgs(_hw_encoder)
        \o AudioCodecArgs(_audio_device)
        \o SegmentArgs(is_segment, max_segments)
        \o <<"-y", PathArg(output_path)>>

\* a Popen object: the pid of the child and the arguments it was given
\* (cmd), of which the kind of session, the target and the wrap count are
\* kept as fields of their own
Popen(pid, kind, target, max_segments) ==
    [pid |-> pid, kind |-> kind, target |-> target, max_segments |-> max_segments,
     cmd |-> _build_ffmpeg_cmd(target, kind = "buffer", max_segments)]
NoProcess ==
    [pid |-> 0, kind |-> "none", target |-> NoPath, max_segments |-> 0, cmd |-> <<>>]

-----------------------------------------------------------------------------
(* Helpers                                                                 *)

Max(a, b) == IF a >= b THEN a ELSE b
Min(a, b) == IF a <= b THEN a ELSE b

\* os.path.join(self.output_dir, f"{prefix}_{timestamp}.mp4")
OutputPath(dir, prefix, ts) == <<dir, prefix, ts>>

\* datetime.now().strftime("%Y%m%d_%H%M%S"): the clock at one-second resolution
_get_timestamp == clock

\* settings.buffer_duration_seconds
buffer_duration_seconds == buffer_duration_minutes * 60

Segments(dir) == {f \in dir : f.kind = "segment"}

\* the files _cleanup_buffer globs: buffer_*.mp4, *.m3u8, *.ts
CleanupMatches(dir) == {f \in dir : f.kind \in {"segment", "m3u8", "ts"}}

\* _cleanup_buffer: every matched file is removed, except those whose
\* os.remove fails (the failure is swallowed); `kept` are the failing ones
_cleanup_buffer(dir, kept) == dir \ (CleanupMatches(dir) \ kept)

\* the sets of files whose deletion may fail in one cleanup of `dir`
DeletionFailures(dir) ==
    {kept \in SUBSET CleanupMatches(dir) :
        deletion_failures + Cardinality(kept) <= MaxDeletionFailures}

StaleSegment ==
    [kind |-> "segment", slot |-> 1, mtime |-> 0, owner |-> 0, secs |-> 10]
StalePlaylist ==
    [kind |-> "m3u8", slot |-> 0, mtime |-> 0, owner |-> 0, secs |-> 0]
ConcatFile ==
    [kind |-> "concat", slot |-> 0, mtime |-> 0, owner |-> 0, secs |-> 0]

\* What is recorded of a recorder call: the method, the mode and the target
\* of the held backend when it was entered, its result ("True", "False",
\* "None", "path" with the path returned, or "raised"), the steps of its
\* stop step, the outcome of its spawn, the number of buffer cleanups it
\* ran, the outcome of its concatenation, the manifest it wrote and the
\* add_video invocations it made.
NoCall == [op |-> "none", pre_mode |-> NoneMode, target |-> NoPath,
           result |-> "none", path |-> NoPath, trace |-> <<>>,
           spawn |-> "none", cleanups |-> 0, concat |-> "none",
           manifest |-> <<>>, add_video |-> <<>>]

Entered(op) == [NoCall EXCEPT !.op = op, !.pre_mode = current_mode,
                              !.target = ffmpeg_process.target]

-----------------------------------------------------------------------------
(* ScreenRecorder._detect_audio_device                                     *)

\* priority_names, each term as the sequence of its words
priority_names ==
    << <<"Stereo", "Mix">>, <<"What", "U", "Hear">>, <<"CABLE", "Output">>,
       <<"Loopback">> >>

\* str.lower(), word by word, over the words the listings use
lower(word) ==
    CASE word \in {"Stereo", "STEREO"} -> "stereo"
      [] word \in {"Mix", "MIX"} -> "mix"
      [] word = "What" -> "what"
      [] word = "U" -> "u"
      [] word = "Hear" -> "hear"
      [] word = "CABLE" -> "cable"
      [] word = "Output" -> "output"
      [] word = "Loopback" -> "loopback"
      [] word = "Microphone" -> "microphone"
      [] word = "(Realtek)" -> "(realtek)"
      [] word = "(VB-Audio)" -> "(vb-audio)"
      [] word = "USB" -> "usb"
      [] word = "Camera" -> "camera"
      [] OTHER -> word

Lower(name) == [i \in 1..Len(name) |-> lower(name[i])]

\* `term in name` for strings, at the grain of words: the words of the term
\* occur in the name one after the other
Contains(name, term) ==
    \E k \in 0..(Len(name) - Len(term)) :
        \A i \in 1..Len(term) : name[k + i] = term[i]

\* One line of the stderr of `ffmpeg -list_devices`: whether it holds the
\* text (audio), whether it holds a quoted name, and that name.
Line(audio, quoted, name) == [audio |-> audio, quoted |-> quoted, name |-> name]

\* device_name.startswith("@")
StartsWithAt(name) == Len(name) > 0 /\ name[1] = "@device_cm"

\* the conditions under which the parsing loop appends the name of a line:
\* '(audio)' in line and '"' in line, end > start (the name is not empty),
\* and not device_name.startswith("@")
Appended(line) ==
    /\ line.audio
    /\ line.quoted
    /\ Len(line.name) > 0
    /\ ~StartsWithAt(line.name)

\* audio_devices after the parsing loop
audio_devices(lines) ==
    LET kept == SelectSeq(lines, Appended)
    IN  [i \in 1..Len(kept) |-> kept[i].name]

SetMin(S) == CHOOSE x \in S : \A y \in S : x <= y

\* priority.lower() in device.lower()
Matches(device, priority) == Contains(Lower(device), Lower(priority))

\* (PriorityMatch with a fault) the loops nested the other way round: the
\* first device that contains any term
PriorityMatchDeviceFirst(devices) ==
    LET hits == {i \in 1..Len(devices) :
                    \E p \in 1..Len(priority_names) :
                        Matches(devices[i], priority_names[p])}
    IN  IF hits = {} THEN <<>> ELSE <<devices[SetMin(hits)]>>

\* for priority in priority_names: for device in audio_devices:
\*     if priority.lower() in device.lower(): return device
\* The result is <<device>>, or <<>> when the loops end without a return.
PriorityMatch(devices) ==
    LET hit(p) == {i \in 1..Len(devices) : Matches(devices[i], priority_names[p])}
        terms == {p \in 1..Len(priority_names) : hit(p) # {}}
    IN  IF terms = {} THEN <<>> ELSE <<devices[SetMin(hit(SetMin(terms)))]>>

\* What subprocess.run(["ffmpeg", "-list_devices", ...], timeout=5) gave:
\* it returned with the lines of its stderr, raised TimeoutExpired, or
\* raised another error.  NoListing: it has not been run yet.
Listing(outcome, lines) == [outcome |-> outcome, lines |-> lines]
NoListing == Listing("none", <<>>)

\* (ListingRaises with a fault) only OSError is caught, TimeoutExpired leaves
ListingRaisesOnTimeout(outcome) == outcome = "timeout"

\* try: ... except Exception as e: print(...)
\* Whatever the listing raises is caught; the function goes on to return None.
ListingRaises(outcome) == FALSE

\* the value _detect_audio_device returns, and whether it raised instead
_detect_audio_device(listing) ==
    LET devices == audio_devices(listing.lines)
        best == PriorityMatch(devices)
    IN  [raised |-> ListingRaises(listing.outcome),
         device |-> CASE listing.outcome # "returned" -> NoDevice
                      [] best # <<>> -> best[1]
                      [] Len(devices) > 0 -> devices[1]
                      [] OTHER -> NoDevice]

\* the lines a listing is made of, and the listings of at most MaxLines lines
ListingLines ==
    {Line(TRUE, TRUE, <<"Microphone", "(Realtek)">>),
     Line(TRUE, TRUE, <<"Stereo", "Mix", "(Realtek)">>),
     Line(TRUE, TRUE, <<"STEREO", "MIX">>),
     Line(TRUE, TRUE, <<"CABLE", "Output", "(VB-Audio)">>),
     Line(TRUE, TRUE, <<"@device_cm", "Stereo", "Mix">>),
     Line(TRUE, TRUE, <<>>),
     Line(FALSE, TRUE, <<"USB", "Camera">>),
     Line(FALSE, FALSE, <<>>)}

Listings ==
    {Listing("timeout", <<>>), Listing("error", <<>>)}
        \cup {Listing("returned", lines) :
                lines \in UNION {[1..n -> ListingLines] : n \in 0..MaxLines}}

\* self._audio_device = self._detect_audio_device(): the first probe of
\* __init__.  An exception of the probe would leave __init__.
DetectAudioDevice ==
    /\ audio_listing = NoListing
    /\ \E listing \in Listings :
        LET detected == _detect_audio_device(listing)
        IN  /\ audio_listing' = listing
            /\ IF detected.raised
               THEN /\ call' = [Entered("__init__") EXCEPT !.result = "raised"]
                    /\ UNCHANGED _audio_device
               ELSE /\ _audio_device' = detected.device
                    /\ UNCHANGED call
    /\ UNCHANGED <<app_state, recorder_state, settings_state, clock, fs_time,
                   spawned, procs, buffer_dir, deletion_failures, out_files,
                   db_rows, _hw_encoder, encoder_tests>>

-----------------------------------------------------------------------------
(* ScreenRecorder._detect_hw_encoder                                       *)

\* hw_encoders: the candidates in priority order
hw_encoders == <<"h264_nvenc", "h264_amf", "h264_qsv">>

\* What subprocess.run(cmd, ..., timeout=3) of a one-frame test can do:
\* return with status 0, return with a nonzero status, raise TimeoutExpired,
\* or raise another error (ffmpeg cannot be started).
TestOutcomes == {"ok", "nonzero", "timeout", "error"}

EncoderTest(encoder, outcome) == [encoder |-> encoder, outcome |-> outcome]

\* (TestPassed with a fault) the return code of the test is not looked at
TestPassedUnlessRaised(outcome) == outcome \in {"ok", "nonzero"}

\* if result.returncode == 0: return encoder -- reached only when
\* subprocess.run returned; an exception is caught by `except Exception`
TestPassed(outcome) == outcome = "ok"

\* the tests of a construction in which no hardware encoder worked
NoHardwareTests ==
    [i \in 1..Len(hw_encoders) |-> EncoderTest(hw_encoders[i], "nonzero")]

\* One iteration of `for encoder, name in hw_encoders`: the next candidate
\* is tested; if the test passes the function returns it, and if the last
\* candidate fails the loop ends and the function returns "libx264".
DetectHwEncoderStep ==
    /\ audio_listing # NoListing
    /\ call.result # "raised"
    /\ _hw_encoder = "unset"
    /\ Len(encoder_tests) < Len(hw_encoders)
    /\ \E outcome \in TestOutcomes :
        LET encoder == hw_encoders[Len(encoder_tests) + 1]
            tests == Append(encoder_tests, EncoderTest(encoder, outcome))
        IN  /\ encoder_tests' = tests
            /\ _hw_encoder' = IF TestPassed(outcome) THEN encoder
                              ELSE IF Len(tests) = Len(hw_encoders) THEN "libx264"
                              ELSE "unset"
    /\ UNCHANGED <<app_state, recorder_state, settings_state, clock, fs_time,
                   spawned, procs, buffer_dir, deletion_failures, out_files,
                   db_rows, call, _audio_device, audio_listing>>

-----------------------------------------------------------------------------
(* The application around the recorder as ScreenRecorderApp.__init__ and   *)
(* run() leave it: the main window and the overlay exist, the hotkeys are  *)
(* registered, no tray icon is running, no callback is waiting, and the    *)
(* overlay shows the idle status (run() calls update_status("idle", False)).*)

NoHandler == "none"

AppStarted ==
    /\ tk_queue = <<>>
    /\ running = {}
    /\ root = "alive"
    /\ overlay_window = "alive"
    /\ hooked = TRUE
    /\ tray_icon = FALSE
    /\ handled = NoHandler
    /\ overlay_status = "IDLE"

-----------------------------------------------------------------------------
(* Initial state: the recorder as __init__ leaves it, the settings at      *)
(* their defaults, and a buffer directory that may hold what an earlier    *)
(* run of the program left behind.                                         *)

Init ==
    /\ current_mode = NoneMode
    /\ ffmpeg_process = NoProcess
    /\ current_output_file = NoPath
    /\ output_dir = 1
    /\ buffer_duration_minutes = DefaultBufferMinutes
    /\ clock = 0
    /\ fs_time = 0
    /\ spawned = 0
    /\ deletion_failures = 0
    /\ settings_changes = 0
    /\ procs = {}
    /\ buffer_dir \in {{}, {StaleSegment}, {StalePlaylist}}
    /\ out_files = {}
    /\ db_rows = {}
    /\ call = NoCall
    /\ AppStarted
    /\ _hw_encoder = "libx264"
    /\ encoder_tests = NoHardwareTests
    /\ _audio_device = NoDevice
    /\ audio_listing = Listing("returned", <<>>)

-----------------------------------------------------------------------------
(* The backend processes                                                   *)

\* the child subprocess.Popen(cmd, ...) starts
NewProcess(popen) ==
    [pid |-> popen.pid, kind |-> popen.kind, target |-> popen.target,
     max_segments |-> popen.max_segments, state |-> "running", written |-> 0]

Running(pid) == \E r \in procs : r.pid = pid /\ r.state = "running"

\* What the graceful attempt of a stop can meet.  A backend that is still
\* running takes the quit byte and either exits within the wait or does
\* not; one that has already exited has closed its end of the pipe, so the
\* write or the flush of the buffered stdin raises.
StopOutcomes(pid) ==
    IF Running(pid) THEN {"exits", "timeout"} ELSE {"write_fails", "flush_fails"}

\* Popen.kill(): on a backend that has already exited it does nothing; on a
\* live one it terminates it, or raises when the termination is refused.
KillOutcomes(o) == IF o = "timeout" THEN {"ok", "raises"} ELSE {"ok"}

\* one step of a stop: what was called, with what argument (the number of
\* bytes written, the timeout of the wait), and whether it returned (TRUE)
\* or raised (FALSE)
Step(name, arg, ok) == [step |-> name, arg |-> arg, ok |-> ok]

\* The try block: stdin.write(b'q'); stdin.flush(); wait(timeout=5).
\* Each step runs only if the one before it did not raise.
GracefulAttempt(o) ==
    CASE o = "write_fails" -> <<Step("write_q", QuitBytes, FALSE)>>
      [] o = "flush_fails" -> <<Step("write_q", QuitBytes, TRUE),
                                Step("flush", 0, FALSE)>>
      [] o = "timeout"     -> <<Step("write_q", QuitBytes, TRUE),
                                Step("flush", 0, TRUE),
                                Step("wait", StopWaitTimeout, FALSE)>>
      [] OTHER             -> <<Step("write_q", QuitBytes, TRUE),
                                Step("flush", 0, TRUE),
                                Step("wait", StopWaitTimeout, TRUE)>>

\* (StopStep with a fault) kill() in a finally clause: issued after every attempt
StopStepAlwaysKills(o, k) ==
    LET attempt == GracefulAttempt(o)
    IN  [trace  |-> Append(attempt, Step("kill", 0, k = "ok")),
         raised |-> k = "raises",
         state  |-> IF k = "raises" THEN "running" ELSE "exited"]

\* try: <graceful attempt>  except: self.ffmpeg_process.kill()
\* The bare except runs kill() when any step of the attempt raised; an
\* exception of kill() itself is not caught and leaves the method.
StopStep(o, k) ==
    LET attempt == GracefulAttempt(o)
        failed == ~attempt[Len(attempt)].ok
    IN  [trace  |-> IF failed THEN Append(attempt, Step("kill", 0, k = "ok"))
                              ELSE attempt,
         raised |-> failed /\ k = "raises",
         state  |-> CASE ~failed -> "exited"
                      [] failed /\ k = "raises" -> "running"
                      [] failed /\ o = "timeout" -> "killed"
                      [] OTHER -> "exited"]

\* the process table after the stop step of the backend `pid`
AfterStop(ps, pid, s) ==
    CASE s.state = "exited" -> {r \in ps : r.pid # pid}
      [] s.state = "killed" -> {IF r.pid = pid THEN [r EXCEPT !.state = "killed"]
                                               ELSE r : r \in ps}
      [] OTHER -> ps

-----------------------------------------------------------------------------
(* The videos table                                                        *)

\* VideoDatabase.add_video: the INSERT fails on a filepath the table already
\* holds (filepath TEXT NOT NULL UNIQUE) or on any other sqlite error.
add_video(rows, filepath, mode, outcome) ==
    IF outcome = "ok" /\ filepath \notin {r.filepath : r \in rows}
    THEN [ok |-> TRUE, rows |-> rows \cup {[filepath |-> filepath, mode |-> mode]}]
    ELSE [ok |-> FALSE, rows |-> rows]

AddVideoCall(filepath, mode, added) ==
    <<[filepath |-> filepath, mode |-> mode, ok |-> added.ok]>>

\* (RegistrationRaises with a fault) the exception of add_video is not caught
RegistrationPropagates(reg, added) == reg /\ ~added.ok

\* try: self.db.add_video(...)  except Exception as e: print(...)
\* Whatever add_video raises is caught and printed; the method goes on to
\* its return statement.
RegistrationRaises(reg, added) == FALSE

-----------------------------------------------------------------------------
(* ScreenRecorder.start_fulltime                                           *)

\* (AlreadyActive with a fault) the guard compares with one mode only
AlreadyActiveFulltimeOnly(mode) == mode = "fulltime"

\* if self.current_mode is not None: return False
AlreadyActive(mode) == mode # NoneMode

\* (TrySpawn with a fault) the mode is assigned before Popen is called
TrySpawnModeFirst(spawn, popen, mode) ==
    IF spawn = "ok"
    THEN [process |-> popen, mode |-> mode, result |-> "True"]
    ELSE [process |-> ffmpeg_process, mode |-> mode, result |-> "False"]

\* (TrySpawn with a fault) the exception of Popen is swallowed and the method
\* goes on as after a spawn
TrySpawnSwallows(spawn, popen, mode) ==
    [process |-> IF spawn = "ok" THEN popen ELSE ffmpeg_process,
     mode |-> mode, result |-> "True"]

\* try: self.ffmpeg_process = subprocess.Popen(...); self.current_mode = mode;
\*      return True
\* except Exception: return False
\* When Popen raises, neither attribute has been assigned.
TrySpawn(spawn, popen, mode) ==
    IF spawn = "ok"
    THEN [process |-> popen, mode |-> mode, result |-> "True"]
    ELSE [process |-> ffmpeg_process, mode |-> current_mode, result |-> "False"]

\* the operating system's side of a Popen that succeeded
Spawned(spawn, popen) ==
    IF spawn = "ok"
    THEN procs' = procs \cup {NewProcess(popen)} /\ spawned' = spawned + 1
    ELSE UNCHANGED backend_state

\* (RejectedStart with a fault) the buffer cleanup runs before the mode guard
RejectedStartAfterCleanup(op) ==
    /\ call' = [Entered(op) EXCEPT !.result = "False", !.cleanups = 1]
    /\ buffer_dir' = _cleanup_buffer(buffer_dir, {})
    /\ UNCHANGED <<recorder_state, settings_state, probe_state, clock, fs_time,
                   backend_state, deletion_failures, out_files, db_rows>>

\* return False, before anything else is done
RejectedStart(op) ==
    /\ call' = [Entered(op) EXCEPT !.result = "False"]
    /\ UNCHANGED <<recorder_state, settings_state, probe_state, clock, fs_time,
                   backend_state, buffer_dir, deletion_failures, out_files, db_rows>>

StartFulltime ==
    IF AlreadyActive(current_mode)
    THEN RejectedStart("start_fulltime")
    ELSE \E spawn \in {"ok", "failed"},
            kept \in DeletionFailures(buffer_dir) :
         LET path == OutputPath(output_dir, "recording", _get_timestamp)
             popen == Popen(spawned + 1, "fulltime", path, 0)
             started == TrySpawn(spawn, popen, "fulltime")
         IN  /\ spawned < MaxSessions
             /\ buffer_dir' = _cleanup_buffer(buffer_dir, kept)
             /\ deletion_failures' = deletion_failures + Cardinality(kept)
             /\ current_output_file' = path
             /\ Spawned(spawn, popen)
             /\ ffmpeg_process' = started.process
             /\ current_mode' = started.mode
             /\ call' = [Entered("start_fulltime") EXCEPT
                            !.spawn = spawn, !.cleanups = 1,
                            !.result = started.result]
             /\ UNCHANGED <<settings_state, probe_state, clock, fs_time, out_files, db_rows>>

-----------------------------------------------------------------------------
(* ScreenRecorder.stop_fulltime                                            *)

\* (NotInMode with a fault) the guard only tests that some session is active
NotInModeIdleOnly(mode, process, expected) ==
    mode = NoneMode \/ process = NoProcess

\* if self.current_mode != <expected> or self.ffmpeg_process is None: return
NotInMode(mode, process, expected) == mode # expected \/ process = NoProcess

NoOpCall(op) ==
    /\ call' = [Entered(op) EXCEPT !.result = "None"]
    /\ UNCHANGED <<recorder_state, settings_state, probe_state, clock, fs_time,
                   backend_state, buffer_dir, deletion_failures, out_files, db_rows>>

\* the stop step raised: the exception of kill() leaves the method before
\* any attribute is reset
RaisedInStop(op, s) ==
    /\ call' = [Entered(op) EXCEPT !.result = "raised", !.trace = s.trace]
    /\ UNCHANGED <<recorder_state, settings_state, probe_state, clock, fs_time,
                   backend_state, buffer_dir, deletion_failures, out_files, db_rows>>

\* (StopFulltimeResult with a fault) the path is returned only when the file
\* exists
StopFulltimeResultIfExists(output_file, exists) ==
    IF exists THEN output_file ELSE NoPath

\* (StopFulltimeResult with a fault) the path is built again from the settings
\* and the clock at the time of the stop
StopFulltimeResultRebuilt(output_file, exists) ==
    OutputPath(output_dir, "recording", _get_timestamp)

\* return output_file
StopFulltimeResult(output_file, exists) == output_file

\* if output_file and os.path.exists(output_file): self.db.add_video(...)
ShouldRegister(output_file, exists) == output_file # NoPath /\ exists

StopFulltime ==
    IF NotInMode(current_mode, ffmpeg_process, "fulltime")
    THEN NoOpCall("stop_fulltime")
    ELSE \E o \in StopOutcomes(ffmpeg_process.pid) :
         \E k \in KillOutcomes(o), db \in {"ok", "error"} :
        LET s == StopStep(o, k)
            output_file == current_output_file
            exists == output_file \in out_files
            reg == ShouldRegister(output_file, exists)
            added == add_video(db_rows, output_file, "fulltime", db)
            returned == StopFulltimeResult(output_file, exists)
        IN  IF s.raised
            THEN db = "ok" /\ RaisedInStop("stop_fulltime", s)
            ELSE /\ reg \/ db = "ok"
                 /\ ffmpeg_process' = NoProcess
                 /\ current_mode' = NoneMode
                 /\ current_output_file' = NoPath
                 /\ procs' = AfterStop(procs, ffmpeg_process.pid, s)
                 /\ db_rows' = IF reg THEN added.rows ELSE db_rows
                 /\ call' = [Entered("stop_fulltime") EXCEPT
                        !.trace = s.trace,
                        !.result = IF RegistrationRaises(reg, added) THEN "raised"
                                   ELSE IF returned = NoPath THEN "None"
                                   ELSE "path",
                        !.path = IF RegistrationRaises(reg, added) THEN NoPath
                                 ELSE returned,
                        !.add_video = IF reg
                                      THEN AddVideoCall(output_file, "fulltime", added)
                                      ELSE <<>>]
                 /\ UNCHANGED <<settings_state, probe_state, clock, fs_time, spawned,
                                buffer_dir, deletion_failures, out_files>>

-----------------------------------------------------------------------------
(* ScreenRecorder.start_buffer                                             *)

\* (MaxSegmentsFor with a fault) one spare slot instead of two
MaxSegmentsOneSpare(seconds) == (seconds \div segment_duration) + 1

\* max_segments = self.buffer_duration_seconds // self.segment_duration + 2
MaxSegmentsFor(seconds) == (seconds \div segment_duration) + 2

StartBuffer ==
    IF AlreadyActive(current_mode)
    THEN RejectedStart("start_buffer")
    ELSE \E spawn \in {"ok", "failed"},
            kept \in DeletionFailures(buffer_dir) :
         LET max_segments == MaxSegmentsFor(buffer_duration_seconds)
             popen == Popen(spawned + 1, "buffer", SegmentPattern, max_segments)
             started == TrySpawn(spawn, popen, "buffer")
         IN  /\ spawned < MaxSessions
             /\ buffer_dir' = _cleanup_buffer(buffer_dir, kept)
             /\ deletion_failures' = deletion_failures + Cardinality(kept)
             /\ Spawned(spawn, popen)
             /\ ffmpeg_process' = started.process
             /\ current_mode' = started.mode
             /\ call' = [Entered("start_buffer") EXCEPT
                            !.spawn = spawn, !.cleanups = 1,
                            !.result = started.result]
             /\ UNCHANGED <<current_output_file, settings_state, probe_state, clock,
                            fs_time, out_files, db_rows>>

-----------------------------------------------------------------------------
(* ScreenRecorder.save_buffer                                              *)

\* (Before with a fault) the segments are left in filename order
BeforeByName(f, g) == f.slot <= g.slot

\* sorted(glob(...)) then segments.sort(key=getmtime): the stable sort
\* leaves the segments in modification-time order, ties in filename order
Before(f, g) == f.mtime < g.mtime \/ (f.mtime = g.mtime /\ f.slot <= g.slot)

RECURSIVE SortSegments(_)
SortSegments(S) ==
    IF S = {} THEN <<>>
    ELSE LET first == CHOOSE f \in S : \A g \in S : Before(f, g)
         IN  <<first>> \o SortSegments(S \ {first})

\* What subprocess.run(concat_cmd, timeout=60) can do: exit with status 0
\* and the output file written; exit with a nonzero status, with or without
\* a partial output file; run into the timeout, likewise; or fail to start.
ConcatOutcomes == {"ok", "nonzero", "nonzero_partial", "timeout",
                   "timeout_partial", "error"}
ConcatKind(c) ==
    CASE c \in {"nonzero", "nonzero_partial"} -> "nonzero"
      [] c \in {"timeout", "timeout_partial"} -> "timeout"
      [] OTHER -> c
ConcatLeavesFile(c) == c \in {"ok", "nonzero_partial", "timeout_partial"}

\* except Exception: return None -- subprocess.run raises TimeoutExpired on
\* the timeout and OSError when ffmpeg cannot be started; without check=True
\* a nonzero exit status raises nothing
ConcatRaises(kind) == kind \in {"timeout", "error"}

SaveBuffer ==
    IF NotInMode(current_mode, ffmpeg_process, "buffer")
    THEN NoOpCall("save_buffer")
    ELSE \E o \in StopOutcomes(ffmpeg_process.pid) : \E k \in KillOutcomes(o) :
        LET s == StopStep(o, k)
            segments == Segments(buffer_dir)
            stopped == [Entered("save_buffer") EXCEPT !.trace = s.trace]
        IN  IF s.raised
            THEN RaisedInStop("save_buffer", s)
            ELSE
              /\ ffmpeg_process' = NoProcess
              /\ current_mode' = NoneMode
              /\ procs' = AfterStop(procs, ffmpeg_process.pid, s)
              /\ UNCHANGED <<current_output_file, settings_state, probe_state, clock,
                             fs_time, spawned>>
              /\ IF segments = {}
                 THEN \* if not segments: return None
                      /\ call' = [stopped EXCEPT !.result = "None"]
                      /\ UNCHANGED <<buffer_dir, deletion_failures, out_files, db_rows>>
                 ELSE \E w \in {"ok", "getmtime_fails", "open_fails", "write_fails"} :
                   IF w = "getmtime_fails" \/ w = "open_fails"
                   THEN \* os.path.getmtime raises inside segments.sort, or
                        \* open(concat_file, 'w') raises
                        /\ call' = [stopped EXCEPT !.result = "raised"]
                        /\ UNCHANGED <<buffer_dir, deletion_failures, out_files, db_rows>>
                   ELSE IF w = "write_fails"
                   THEN \* f.write raises: the manifest is left half-written
                        /\ buffer_dir' = buffer_dir \cup {ConcatFile}
                        /\ call' = [stopped EXCEPT !.result = "raised"]
                        /\ UNCHANGED <<deletion_failures, out_files, db_rows>>
                   ELSE \E c \in ConcatOutcomes,
                           kept \in DeletionFailures(buffer_dir),
                           rm \in {"ok", "fails"},
                           db \in {"ok", "error"} :
                     LET output_file == OutputPath(output_dir, "replay",
                                                   _get_timestamp)
                         files == IF ConcatLeavesFile(c)
                                  THEN out_files \cup {output_file}
                                  ELSE out_files
                         raised == ConcatRaises(ConcatKind(c))
                         reg == ~raised /\ ShouldRegister(output_file,
                                                         output_file \in files)
                         added == add_video(db_rows, output_file, "buffer", db)
                         cleaned == _cleanup_buffer(buffer_dir \cup {ConcatFile},
                                                    kept)
                         failures == Cardinality(kept)
                                     + (IF rm = "fails" THEN 1 ELSE 0)
                     IN  /\ reg \/ db = "ok"
                         /\ deletion_failures + failures <= MaxDeletionFailures
                         /\ deletion_failures' = deletion_failures + failures
                         /\ out_files' = files
                         \* finally: self._cleanup_buffer(); os.remove(concat_file)
                         /\ buffer_dir' = IF rm = "ok" THEN cleaned \ {ConcatFile}
                                                       ELSE cleaned
                         /\ db_rows' = IF reg THEN added.rows ELSE db_rows
                         /\ call' = [stopped EXCEPT
                                !.concat = ConcatKind(c),
                                !.manifest = SortSegments(segments),
                                !.cleanups = 1,
                                !.result = IF RegistrationRaises(reg, added)
                                           THEN "raised"
                                           ELSE IF raised THEN "None"
                                           ELSE "path",
                                !.path = IF raised \/ RegistrationRaises(reg, added)
                                         THEN NoPath ELSE output_file,
                                !.add_video = IF reg
                                              THEN AddVideoCall(output_file,
                                                                "buffer", added)
                                              ELSE <<>>]

-----------------------------------------------------------------------------
(* ScreenRecorder.cancel_buffer                                            *)

CancelBuffer ==
    IF NotInMode(current_mode, ffmpeg_process, "buffer")
    THEN NoOpCall("cancel_buffer")
    ELSE \E o \in StopOutcomes(ffmpeg_process.pid) : \E k \in KillOutcomes(o) :
         \E kept \in DeletionFailures(buffer_dir) :
        LET s == StopStep(o, k)
        IN  IF s.raised
            THEN kept = {} /\ RaisedInStop("cancel_buffer", s)
            ELSE /\ ffmpeg_process' = NoProcess
                 /\ current_mode' = NoneMode
                 /\ buffer_dir' = _cleanup_buffer(buffer_dir, kept)
                 /\ deletion_failures' = deletion_failures + Cardinality(kept)
                 /\ procs' = AfterStop(procs, ffmpeg_process.pid, s)
                 /\ call' = [Entered("cancel_buffer") EXCEPT
                                !.trace = s.trace, !.cleanups = 1,
                                !.result = "None"]
                 /\ UNCHANGED <<current_output_file, settings_state, probe_state, clock,
                                fs_time, spawned, out_files, db_rows>>

-----------------------------------------------------------------------------
(* The recorder's methods called on their own, outside any handler of the  *)
(* application                                                             *)

DirectStartFulltime == StartFulltime /\ UNCHANGED app_state
DirectStopFulltime == StopFulltime /\ UNCHANGED app_state
DirectStartBuffer == StartBuffer /\ UNCHANGED app_state
DirectSaveBuffer == SaveBuffer /\ UNCHANGED app_state
DirectCancelBuffer == CancelBuffer /\ UNCHANGED app_state

-----------------------------------------------------------------------------
(* The environment: the clock, the backend processes, the settings tab     *)

Tick ==
    /\ clock < MaxClock
    /\ clock' = clock + 1
    /\ call' = NoCall
    /\ UNCHANGED <<app_state, recorder_state, settings_state, probe_state, fs_time, backend_state,
                   buffer_dir, deletion_failures, out_files, db_rows>>

\* the backend of a fulltime session creates its output file (-y <path>)
BackendWritesOutput ==
    \E r \in procs :
        /\ r.kind = "fulltime" /\ r.state = "running"
        /\ r.target \notin out_files
        /\ out_files' = out_files \cup {r.target}
        /\ call' = NoCall
        /\ UNCHANGED <<app_state, recorder_state, settings_state, probe_state, clock, fs_time,
                       backend_state, buffer_dir, deletion_failures, db_rows>>

\* the backend of a buffer session closes its next segment: segment k goes
\* to buffer_<k mod max_segments>.mp4 (-segment_wrap), replacing the file of
\* that name
BackendWritesSegment ==
    \E r \in procs :
        /\ r.kind = "buffer" /\ r.state = "running"
        /\ r.written < MaxSegmentWrites
        /\ LET slot == r.written % r.max_segments
               file == [kind |-> "segment", slot |-> slot,
                        mtime |-> fs_time + 1, owner |-> r.pid,
                        secs |-> segment_duration]
           IN  buffer_dir' = {f \in buffer_dir :
                                ~(f.kind = "segment" /\ f.slot = slot)}
                             \cup {file}
        /\ fs_time' = fs_time + 1
        /\ procs' = (procs \ {r}) \cup {[r EXCEPT !.written = @ + 1]}
        /\ call' = NoCall
        /\ UNCHANGED <<app_state, recorder_state, settings_state, probe_state, clock, spawned,
                       deletion_failures, out_files, db_rows>>

\* a backend ends on its own (capture error, terminated from outside), and
\* a backend that was sent kill() is gone a moment later
BackendExits ==
    \E r \in procs :
        /\ procs' = procs \ {r}
        /\ call' = NoCall
        /\ UNCHANGED <<app_state, recorder_state, settings_state, probe_state, clock, fs_time, spawned,
                       buffer_dir, deletion_failures, out_files, db_rows>>

\* Settings.output_dir setter
SetOutputDir ==
    \E path \in OutputDirs :
        /\ path # output_dir
        /\ settings_changes < MaxSettingsChanges
        /\ settings_changes' = settings_changes + 1
        /\ output_dir' = path
        /\ call' = NoCall
        /\ UNCHANGED <<app_state, recorder_state, probe_state, buffer_duration_minutes, clock, fs_time,
                       backend_state, buffer_dir, deletion_failures, out_files, db_rows>>

\* Settings.buffer_duration_minutes setter: max(1, min(30, minutes))
ClampMinutes(minutes) == Max(1, Min(30, minutes))

\* (SetBufferDurationMinutes with a fault) the session that is running is
\* given the wrap count of the new duration
SetBufferDurationMinutesLive ==
    \E minutes \in MinuteInputs :
        /\ ClampMinutes(minutes) # buffer_duration_minutes
        /\ settings_changes < MaxSettingsChanges
        /\ settings_changes' = settings_changes + 1
        /\ buffer_duration_minutes' = ClampMinutes(minutes)
        /\ ffmpeg_process' =
                IF ffmpeg_process.kind = "buffer"
                THEN [ffmpeg_process EXCEPT
                        !.max_segments = (ClampMinutes(minutes) * 60)
                                             \div segment_duration + 2]
                ELSE ffmpeg_process
        /\ call' = NoCall
        /\ UNCHANGED <<app_state, current_mode, current_output_file, probe_state,
                       output_dir, clock, fs_time, backend_state, buffer_dir,
                       deletion_failures, out_files, db_rows>>

\* the setter called by SettingsTab._save_settings: only the settings change
SetBufferDurationMinutes ==
    \E minutes \in MinuteInputs :
        /\ ClampMinutes(minutes) # buffer_duration_minutes
        /\ settings_changes < MaxSettingsChanges
        /\ settings_changes' = settings_changes + 1
        /\ buffer_duration_minutes' = ClampMinutes(minutes)
        /\ call' = NoCall
        /\ UNCHANGED <<app_state, recorder_state, probe_state, output_dir, clock, fs_time,
                       backend_state, buffer_dir, deletion_failures, out_files, db_rows>>

-----------------------------------------------------------------------------

Next ==
    \/ DirectStartFulltime
    \/ DirectStopFulltime
    \/ DirectStartBuffer
    \/ DirectSaveBuffer
    \/ DirectCancelBuffer
    \/ Tick
    \/ BackendWritesOutput
    \/ BackendWritesSegment
    \/ BackendExits
    \/ SetOutputDir
    \/ SetBufferDurationMinutes

Spec == Init /\ [][Next]_vars

-----------------------------------------------------------------------------
(* Construction: ProbeSpec follows __init__ through the device listing    *)
(* and the encoder tests, which run before the recorder takes any call.    *)

ProbeInit ==
    /\ current_mode = NoneMode
    /\ ffmpeg_process = NoProcess
    /\ current_output_file = NoPath
    /\ output_dir \in OutputDirs
    /\ buffer_duration_minutes = DefaultBufferMinutes
    /\ clock = 0
    /\ fs_time = 0
    /\ spawned = 0
    /\ deletion_failures = 0
    /\ settings_changes = 0
    /\ procs = {}
    /\ buffer_dir \in {{}, {StaleSegment}, {StalePlaylist}}
    /\ out_files = {}
    /\ db_rows = {}
    /\ call = NoCall
    /\ AppStarted
    /\ _hw_encoder = "unset"
    /\ encoder_tests = <<>>
    /\ _audio_device = NoDevice
    /\ audio_listing = NoListing

ProbeNext == DetectAudioDevice \/ DetectHwEncoderStep

ProbeSpec == ProbeInit /\ [][ProbeNext]_vars

-----------------------------------------------------------------------------
(* The lifetime of a recorder: LifetimeSpec starts from a recorder whose   *)
(* construction selected any of the four encoders, with or without an      *)
(* audio device, and follows the calls it takes afterwards.                *)

\* the tests of a construction that selected `encoder`: the candidates
\* before it failed, its own test passed, the ones after it were not run
TestsSelecting(encoder) ==
    IF \E i \in 1..Len(hw_encoders) : hw_encoders[i] = encoder
    THEN LET n == CHOOSE i \in 1..Len(hw_encoders) : hw_encoders[i] = encoder
         IN  [i \in 1..n |-> EncoderTest(hw_encoders[i],
                                          IF i = n THEN "ok" ELSE "nonzero")]
    ELSE NoHardwareTests

\* a listing from which `device` is selected
ListingSelecting(device) ==
    IF device = NoDevice
    THEN Listing("returned", <<>>)
    ELSE Listing("returned", <<Line(TRUE, TRUE, device)>>)

SelectableEncoders == {hw_encoders[i] : i \in 1..Len(hw_encoders)} \cup {"libx264"}
SelectableDevices == {NoDevice, <<"Stereo", "Mix", "(Realtek)">>}

LifetimeInit ==
    /\ current_mode = NoneMode
    /\ ffmpeg_process = NoProcess
    /\ current_output_file = NoPath
    /\ output_dir = 1
    /\ buffer_duration_minutes = DefaultBufferMinutes
    /\ clock = 0
    /\ fs_time = 0
    /\ spawned = 0
    /\ deletion_failures = 0
    /\ settings_changes = 0
    /\ procs = {}
    /\ buffer_dir = {}
    /\ out_files = {}
    /\ db_rows = {}
    /\ call = NoCall
    /\ AppStarted
    /\ _hw_encoder \in SelectableEncoders
    /\ encoder_tests = TestsSelecting(_hw_encoder)
    /\ _audio_device \in SelectableDevices
    /\ audio_listing = ListingSelecting(_audio_device)

LifetimeNext ==
    \/ DirectStartFulltime
    \/ DirectStopFulltime
    \/ DirectStartBuffer
    \/ DirectSaveBuffer
    \/ DirectCancelBuffer
    \/ BackendExits
    \/ SetOutputDir
    \/ SetBufferDurationMinutes

LifetimeSpec == LifetimeInit /\ [][LifetimeNext]_vars

-----------------------------------------------------------------------------
(* The settings object: SettingsSpec starts from what Settings._load makes *)
(* of the configuration file and follows the two ways of writing the       *)
(* buffer duration, with the buffer sessions that consume it.              *)

\* values of "buffer_duration_minutes" a configuration file or a caller of
\* set() may hold
StoredMinutes == {0, DefaultBufferMinutes, 45}

\* config.json when the program starts: missing, not valid JSON, valid
\* without the key, or valid with a value stored under the key
ConfigFile(state, minutes) == [state |-> state, minutes |-> minutes]
ConfigFiles ==
    {ConfigFile(st, 0) : st \in {"missing", "corrupt", "no_key"}}
        \cup {ConfigFile("stored", m) : m \in StoredMinutes}

\* Settings._load: the value of the key after loading.  A missing or
\* unreadable file gives {} and then the default; a stored value is kept
\* as it is.
_load(file) == IF file.state = "stored" THEN file.minutes ELSE DefaultBufferMinutes

SettingsInit ==
    /\ current_mode = NoneMode
    /\ ffmpeg_process = NoProcess
    /\ current_output_file = NoPath
    /\ output_dir = 1
    /\ \E file \in ConfigFiles : buffer_duration_minutes = _load(file)
    /\ clock = 0
    /\ fs_time = 0
    /\ spawned = 0
    /\ deletion_failures = 0
    /\ settings_changes = 0
    /\ procs = {}
    /\ buffer_dir = {}
    /\ out_files = {}
    /\ db_rows = {}
    /\ call = NoCall
    /\ AppStarted
    /\ _hw_encoder = "libx264"
    /\ encoder_tests = NoHardwareTests
    /\ _audio_device = NoDevice
    /\ audio_listing = Listing("returned", <<>>)

\* Settings.set("buffer_duration_minutes", value):
\* self._settings[key] = value; self._save()
SettingsSet ==
    \E value \in StoredMinutes :
        /\ value # buffer_duration_minutes
        /\ settings_changes < MaxSettingsChanges
        /\ settings_changes' = settings_changes + 1
        /\ buffer_duration_minutes' = value
        /\ call' = NoCall
        /\ UNCHANGED <<app_state, recorder_state, probe_state, output_dir, clock, fs_time,
                       backend_state, buffer_dir, deletion_failures, out_files, db_rows>>

SettingsNext ==
    \/ SetBufferDurationMinutes
    \/ SettingsSet
    \/ DirectStartBuffer
    \/ DirectCancelBuffer
    \/ BackendExits

SettingsSpec == SettingsInit /\ [][SettingsNext]_vars

-----------------------------------------------------------------------------
(* The segment ring in detail.  The backend is started with                *)
(*   -f segment -segment_time <segment_duration> -segment_wrap <n>         *)
(* and writes segment k to buffer_<k mod n>.mp4: it opens the file, which  *)
(* truncates what the slot held, fills it for segment_duration seconds and *)
(* closes it.  RingSpec follows one buffer session through its ring, with  *)
(* short buffer durations so that the ring wraps.                          *)

\* buffer durations, in minutes, read from the settings file
RingMinutes == {1, 2}

\* a segment left by an earlier session that ran with a longer ring
StaleHighSegment ==
    [kind |-> "segment", slot |-> 20, mtime |-> 0, owner |-> 0, secs |-> 10]

RingInit ==
    /\ current_mode = NoneMode
    /\ ffmpeg_process = NoProcess
    /\ current_output_file = NoPath
    /\ output_dir = 1
    /\ buffer_duration_minutes \in RingMinutes
    /\ clock = 0
    /\ fs_time = 0
    /\ spawned = 0
    /\ deletion_failures = 0
    /\ settings_changes = 0
    /\ procs = {}
    /\ buffer_dir \in {{}, {StaleSegment}, {StaleHighSegment}}
    /\ out_files = {}
    /\ db_rows = {}
    /\ call = NoCall
    /\ AppStarted
    /\ _hw_encoder = "libx264"
    /\ encoder_tests = NoHardwareTests
    /\ _audio_device = NoDevice
    /\ audio_listing = Listing("returned", <<>>)

\* the segment file the backend r has open
OpenSegments(r) ==
    {f \in Segments(buffer_dir) : f.owner = r.pid /\ f.secs < segment_duration}

\* the backend opens the file of its next segment
BackendOpensSegment ==
    \E r \in procs :
        /\ r.kind = "buffer" /\ r.state = "running"
        /\ OpenSegments(r) = {}
        /\ r.written < MaxRingLaps * r.max_segments
        /\ LET slot == r.written % r.max_segments
               file == [kind |-> "segment", slot |-> slot,
                        mtime |-> fs_time + 1, owner |-> r.pid, secs |-> 0]
           IN  buffer_dir' = {f \in buffer_dir :
                                ~(f.kind = "segment" /\ f.slot = slot)}
                             \cup {file}
        /\ fs_time' = fs_time + 1
        /\ call' = NoCall
        /\ UNCHANGED <<app_state, recorder_state, settings_state, probe_state, clock, backend_state,
                       deletion_failures, out_files, db_rows>>

\* segment_duration seconds later the backend closes it
BackendClosesSegment ==
    \E r \in procs : \E f \in OpenSegments(r) :
        /\ r.state = "running"
        /\ buffer_dir' = (buffer_dir \ {f})
                \cup {[f EXCEPT !.secs = segment_duration, !.mtime = fs_time + 1]}
        /\ fs_time' = fs_time + 1
        /\ procs' = (procs \ {r}) \cup {[r EXCEPT !.written = @ + 1]}
        /\ call' = NoCall
        /\ UNCHANGED <<app_state, recorder_state, settings_state, probe_state, clock, spawned,
                       deletion_failures, out_files, db_rows>>

RingNext ==
    \/ DirectStartBuffer
    \/ BackendOpensSegment
    \/ BackendClosesSegment

RingSpec == RingInit /\ [][RingNext]_vars

-----------------------------------------------------------------------------
(* The application (src/main.py, src/ui/main_window.py).  Three threads    *)
(* take part: the Tk thread, which runs root.mainloop() and with it every  *)
(* callback given to root.after and every button command; the thread of    *)
(* the keyboard library, which runs the hotkey callbacks; and the thread   *)
(* of the tray icon, which runs the callbacks of the tray menu.  A handler *)
(* that calls the recorder takes time (a stop waits up to five seconds),   *)
(* so it is followed from the moment a thread enters it (it joins          *)
(* `running`) to the moment it leaves it, when its effect takes place.     *)

Hotkeys == {"F9", "F10", "ctrl+shift+q"}
TrayItems == {"Show", "Fulltime (F9)", "Buffer (F10)", "Quit"}
Buttons == {"fulltime_btn", "buffer_btn"}

\* keyboard.add_hotkey(key, callback): the handler each callback schedules
HotkeyHandler(key) ==
    CASE key = "F9" -> "app._toggle_fulltime"
      [] key = "F10" -> "app._toggle_buffer"
      [] OTHER -> "app._quit"

\* pystray.MenuItem(text, callback): the handler each callback schedules
TrayHandler(item) ==
    CASE item = "Show" -> "win._restore_window"
      [] item = "Fulltime (F9)" -> "win._toggle_fulltime"
      [] item = "Buffer (F10)" -> "win._toggle_buffer"
      [] OTHER -> "win._on_close"

\* ttk.Button(..., command=handler)
ButtonHandler(button) ==
    IF button = "fulltime_btn" THEN "win._toggle_fulltime" ELSE "win._toggle_buffer"

FulltimeToggles == {"app._toggle_fulltime", "win._toggle_fulltime"}
BufferToggles == {"app._toggle_buffer", "win._toggle_buffer"}
QuitHandlers == {"app._quit", "win._on_close"}

InHandler(thread, handler) == [thread |-> thread, handler |-> handler]
Busy(thread) == \E r \in running : r.thread = thread

\* (RunsOn with a fault) the callbacks of the tray menu call the handler
\* themselves
RunsOnCallingThreadFromTray(thread, handler) ==
    IF thread = "tray" THEN "tray" ELSE "tk"

\* The thread that will run the handler a callback on `thread` asks for.
\* Every callback of the keyboard thread and of the tray thread is
\*     self.main_window.schedule(0, handler)  or  self.root.after(0, handler)
\* which only puts the handler on the queue of the Tk loop; button commands
\* and WM_DELETE_WINDOW are events of the Tk loop itself.
RunsOn(thread, handler) == "tk"

\* what the callback on `thread` does with the handler
Deliver(thread, handler) ==
    IF RunsOn(thread, handler) = "tk"
    THEN tk_queue' = Append(tk_queue, handler) /\ UNCHANGED running
    ELSE running' = running \cup {InHandler(thread, handler)} /\ UNCHANGED tk_queue

\* nothing of the recorder, its backends, its files or its settings changes
RecorderUntouched ==
    UNCHANGED <<recorder_state, settings_state, probe_state, clock, fs_time,
                backend_state, buffer_dir, deletion_failures, out_files, db_rows>>

\* the handler makes no call that changes the recorder
NoRecorderCall == call' = NoCall /\ RecorderUntouched

\* _on_fulltime_hotkey, _on_buffer_hotkey, _on_quit_hotkey: run on the
\* keyboard thread when a registered hotkey is pressed
HotkeyPressed ==
    \E key \in Hotkeys :
        /\ root = "alive"
        /\ hooked
        /\ ~Busy("keyboard")
        /\ Len(tk_queue) < MaxPending
        /\ Deliver("keyboard", HotkeyHandler(key))
        /\ UNCHANGED <<root, overlay_window, hooked, tray_icon, handled, call,
                       overlay_status>>
        /\ RecorderUntouched

\* _show_from_tray, _tray_toggle_fulltime, _tray_toggle_buffer, _tray_quit:
\* run on the thread of the tray icon; _tray_quit first stops the icon
TrayClicked ==
    \E item \in TrayItems :
        /\ root = "alive"
        /\ tray_icon
        /\ ~Busy("tray")
        /\ Len(tk_queue) < MaxPending
        /\ Deliver("tray", TrayHandler(item))
        /\ tray_icon' = (item # "Quit")
        /\ UNCHANGED <<root, overlay_window, hooked, handled, call, overlay_status>>
        /\ RecorderUntouched

\* a click on one of the two buttons of the main window
ButtonClicked ==
    \E button \in Buttons :
        /\ root = "alive"
        /\ ~tray_icon
        /\ Len(tk_queue) < MaxPending
        /\ Deliver("tk", ButtonHandler(button))
        /\ UNCHANGED <<root, overlay_window, hooked, tray_icon, handled, call,
                       overlay_status>>
        /\ RecorderUntouched

\* the user closes the main window: WM_DELETE_WINDOW calls _on_close
WindowClosed ==
    /\ root = "alive"
    /\ ~tray_icon
    /\ Len(tk_queue) < MaxPending
    /\ Deliver("tk", "win._on_close")
    /\ UNCHANGED <<root, overlay_window, hooked, tray_icon, handled, call,
                   overlay_status>>
    /\ RecorderUntouched

\* _on_minimize: the window is withdrawn and the tray icon started on a
\* thread of its own
Minimized ==
    /\ root = "alive"
    /\ ~tray_icon
    /\ ~Busy("tk")
    /\ tray_icon' = TRUE
    /\ UNCHANGED <<tk_queue, running, root, overlay_window, hooked, handled, call,
                   overlay_status>>
    /\ RecorderUntouched

\* root.mainloop(): the Tk thread takes the next callback off its queue
\* when it is not inside another one
TkBegin ==
    /\ root = "alive"
    /\ ~Busy("tk")
    /\ tk_queue # <<>>
    /\ running' = running \cup {InHandler("tk", Head(tk_queue))}
    /\ tk_queue' = Tail(tk_queue)
    /\ UNCHANGED <<root, overlay_window, hooked, tray_icon, handled, call,
                   overlay_status>>
    /\ RecorderUntouched

\* Overlay.update_status(mode, is_active): the text the status label is
\* given; a mode that none of the branches names leaves the label as it is
update_status(mode, is_active) ==
    IF mode = "idle" \/ ~is_active THEN "IDLE"
    ELSE IF mode = "fulltime" THEN "REC"
    ELSE IF mode = "buffer" THEN "BUF"
    ELSE overlay_status

\* What a toggle handler does to the overlay after its recorder call:
\*     output = self.recorder.<stop>();  self.overlay.update_status("idle", False)
\*     if self.recorder.<start>():       self.overlay.update_status(<mode>, True)
\* An exception of the recorder call leaves the handler before the update,
\* and status_label.config raises on an overlay that has been destroyed.
ToggleUpdatesOverlay(stop_op, start_op, mode) ==
    overlay_status' =
        IF overlay_window # "alive" THEN overlay_status
        ELSE IF call'.op = stop_op /\ call'.result # "raised"
             THEN update_status("idle", FALSE)
        ELSE IF call'.op = start_op /\ call'.result = "True"
             THEN update_status(mode, TRUE)
        ELSE overlay_status

\* _toggle_fulltime (main.py and main_window.py)
_toggle_fulltime ==
    /\ IF current_mode = "fulltime" THEN StopFulltime
       ELSE IF current_mode = NoneMode THEN StartFulltime
       ELSE NoRecorderCall
    /\ ToggleUpdatesOverlay("stop_fulltime", "start_fulltime", "fulltime")

\* _toggle_buffer (main.py and main_window.py)
_toggle_buffer ==
    /\ IF current_mode = "buffer" THEN SaveBuffer
       ELSE IF current_mode = NoneMode THEN StartBuffer
       ELSE NoRecorderCall
    /\ ToggleUpdatesOverlay("save_buffer", "start_buffer", "buffer")

\* ScreenRecorderApp._quit: stop any recording; then keyboard.unhook_all()
\* and overlay.quit(), which destroys the overlay window only (the overlay
\* is a Toplevel of the main window's root, _owns_root is False) and whose
\* exception, on a second call, is swallowed.  An exception of the stop
\* leaves the handler before the cleanup.
_quit ==
    /\ IF current_mode = "fulltime" THEN StopFulltime
       ELSE IF current_mode = "buffer" THEN CancelBuffer
       ELSE NoRecorderCall
    /\ IF call'.result = "raised"
       THEN UNCHANGED <<hooked, overlay_window>>
       ELSE hooked' = FALSE /\ overlay_window' = "destroyed"
    /\ UNCHANGED overlay_status

\* MainWindow._on_close: stop the tray icon, call on_quit_callback (_quit),
\* then self.root.destroy(), which ends mainloop() and drops the callbacks
\* still waiting.  An exception of _quit leaves the handler before the
\* destroy.
_on_close ==
    /\ tray_icon' = FALSE
    /\ _quit
    /\ IF call'.result = "raised"
       THEN UNCHANGED <<root, tk_queue>>
       ELSE root' = "destroyed" /\ tk_queue' = <<>>

\* _restore_window: the window is shown again and the tray icon stopped
_restore_window ==
    /\ tray_icon' = FALSE
    /\ NoRecorderCall
    /\ UNCHANGED <<tk_queue, root, overlay_window, hooked, overlay_status>>

\* the thread of r leaves the handler it was running
Finish(r) ==
    /\ root = "alive"
    /\ running' = running \ {r}
    /\ handled' = r.handler
    /\ CASE r.handler \in FulltimeToggles ->
                /\ _toggle_fulltime
                /\ UNCHANGED <<tk_queue, root, overlay_window, hooked, tray_icon>>
         [] r.handler \in BufferToggles ->
                /\ _toggle_buffer
                /\ UNCHANGED <<tk_queue, root, overlay_window, hooked, tray_icon>>
         [] r.handler = "app._quit" ->
                /\ _quit
                /\ UNCHANGED <<tk_queue, root, tray_icon>>
         [] r.handler = "win._on_close" -> _on_close
         [] OTHER -> _restore_window

HandlerFinishes == \E r \in running : Finish(r)

AppInit ==
    /\ current_mode = NoneMode
    /\ ffmpeg_process = NoProcess
    /\ current_output_file = NoPath
    /\ output_dir = 1
    /\ buffer_duration_minutes = DefaultBufferMinutes
    /\ clock = 0
    /\ fs_time = 0
    /\ spawned = 0
    /\ deletion_failures = 0
    /\ settings_changes = 0
    /\ procs = {}
    /\ buffer_dir = {}
    /\ out_files = {}
    /\ db_rows = {}
    /\ call = NoCall
    /\ AppStarted
    /\ _hw_encoder = "libx264"
    /\ encoder_tests = NoHardwareTests
    /\ _audio_device = NoDevice
    /\ audio_listing = Listing("returned", <<>>)

AppNext ==
    \/ HotkeyPressed
    \/ TrayClicked
    \/ ButtonClicked
    \/ WindowClosed
    \/ Minimized
    \/ TkBegin
    \/ HandlerFinishes

AppSpec == AppInit /\ [][AppNext]_vars

\* The Tk loop keeps running while the main window exists: a callback that
\* is waiting is taken up, and a handler that was entered is left (a stop
\* waits five seconds at most, a concatenation sixty).
FairAppSpec == AppSpec /\ WF_vars(TkBegin) /\ WF_vars(HandlerFinishes)

-----------------------------------------------------------------------------
(* Properties of the recorder                                              *)

StartOps == {"start_fulltime", "start_buffer"}
StopOps == {"stop_fulltime", "save_buffer", "cancel_buffer"}

\* the mode a stopping method expects
ExpectedMode(op) == IF op = "stop_fulltime" THEN "fulltime" ELSE "buffer"

RunningBackends == {r \in procs : r.state = "running"}

LastStep(t) == t[Len(t)]

\* C1: at most one session is active at any instant -- every running
\* backend is the one whose handle the controller holds, so there is at
\* most one -- and a step that spawns a backend is taken only by a
\* controller that is Idle and holds no handle.
SingleActiveSession ==
    /\ [](/\ Cardinality(RunningBackends) <= 1
          /\ \A r \in RunningBackends :
                r.pid = ffmpeg_process.pid /\ r.kind = current_mode)
    /\ [][spawned' # spawned =>
            (current_mode = NoneMode /\ ffmpeg_process = NoProcess)]_vars

\* C1 witness: a second session is running while the backend of the first,
\* killed after the stop timed out, has not gone yet
SecondSessionAfterKill ==
    /\ spawned = 2 /\ current_mode = "buffer"
    /\ Cardinality(procs) = 2 /\ Cardinality(RunningBackends) = 1

\* C2: a start_fulltime or start_buffer call made while the mode is not
\* Idle returns False and changes neither the mode, the process handle, the
\* current output path nor the contents of the buffer directory.
RejectedStartChangesNothing ==
    [][(call'.op \in StartOps /\ current_mode # NoneMode) =>
            /\ call'.result = "False"
            /\ call'.cleanups = 0
            /\ UNCHANGED <<current_mode, ffmpeg_process, current_output_file,
                           buffer_dir>>]_vars

\* C2 witness: start_fulltime was refused during a buffer session whose
\* directory holds a segment the cleanup would have removed
StartRefusedWhileBuffering ==
    /\ call.op = "start_fulltime" /\ call.pre_mode = "buffer"
    /\ call.result = "False"
    /\ Segments(buffer_dir) # {}

\* C3: stop_fulltime called while the mode is not Fulltime, and save_buffer
\* or cancel_buffer called while the mode is not Buffering, return None,
\* take no step of a stop, leave every backend as it is, register nothing
\* and change neither the mode nor the buffer directory.
MismatchedStopIsNoOp ==
    [][(call'.op \in StopOps /\ current_mode # ExpectedMode(call'.op)) =>
            /\ call'.result = "None"
            /\ call'.trace = <<>>
            /\ call'.add_video = <<>>
            /\ UNCHANGED <<current_mode, ffmpeg_process, procs, buffer_dir,
                           db_rows, out_files>>]_vars

\* C3 witness: save_buffer was called during a fulltime session
SaveCalledWhileFulltime ==
    /\ call.op = "save_buffer" /\ call.pre_mode = "fulltime"
    /\ call.result = "None" /\ current_mode = "fulltime"

\* a stop, save or cancel call that leaves the controller Idle
DriveToIdle ==
    (StopFulltime \/ SaveBuffer \/ CancelBuffer) /\ current_mode' = NoneMode

\* C4: in every reachable state in which the controller is not Idle, a
\* stop_fulltime, save_buffer or cancel_buffer call can take it to Idle.
NoWedgedState == current_mode # NoneMode => ENABLED DriveToIdle

\* C4 witness: the controller is still in a session after a stop call that
\* raised
ActiveAfterFailedStop ==
    /\ current_mode # NoneMode
    /\ call.result = "raised"

\* C5 (as claimed): a call that ran the stop step did not raise and left
\* the controller Idle with the process handle released.
StopNeverRaises ==
    (call.op \in StopOps /\ call.trace # <<>>) =>
        /\ call.result # "raised"
        /\ current_mode = NoneMode
        /\ ffmpeg_process = NoProcess

\* the graceful part of a stop trace: all of it but a final kill
Graceful(t) == IF LastStep(t).step = "kill" THEN SubSeq(t, 1, Len(t) - 1) ELSE t

GracefulOrder == <<"write_q", "flush", "wait">>

\* C6: the steps of every stop are, in this order, one write of one quit
\* byte, a flush, a wait with the fixed timeout; a later step is taken only
\* when the one before it returned; kill comes last, and it is issued if and
\* only if a step of the graceful attempt raised (never after a wait that
\* returned).
StopStepsInOrder ==
    call.trace # <<>> =>
        LET t == call.trace
            g == Graceful(t)
        IN  /\ Len(g) \in 1..3
            /\ \A i \in 1..Len(g) : g[i].step = GracefulOrder[i]
            /\ \A i \in 1..(Len(g) - 1) : g[i].ok
            /\ g[1].arg = QuitBytes
            /\ Len(g) = 3 => g[3].arg = StopWaitTimeout
            /\ Len(g) < 3 => ~g[Len(g)].ok
            /\ (Len(t) > Len(g)) <=> ~g[Len(g)].ok

\* C6 witness: a stop whose wait timed out and which then killed the backend
StopKilledAfterTimeout ==
    /\ Len(call.trace) = 4
    /\ call.trace[3] = Step("wait", StopWaitTimeout, FALSE)
    /\ call.trace[4] = Step("kill", 0, TRUE)

\* a start call that is accepted and spawns
AcceptedStart == (StartFulltime \/ StartBuffer) /\ call'.result = "True"

\* C7: after a start whose spawn failed the call has returned False, the
\* mode is Idle, no handle is held, and (while the model lets a backend be
\* spawned at all) a start is accepted.
SpawnFailureLeavesIdle ==
    call.spawn = "failed" =>
        /\ call.result = "False"
        /\ current_mode = NoneMode
        /\ ffmpeg_process = NoProcess
        /\ spawned < MaxSessions => ENABLED AcceptedStart

\* C7 witness: start_buffer has just failed to spawn
StartBufferSpawnFailed ==
    /\ call.op = "start_buffer" /\ call.spawn = "failed"
    /\ procs = {}

\* a stop_fulltime call made in Fulltime mode has just returned
StopFulltimeReturned ==
    /\ call.op = "stop_fulltime" /\ call.pre_mode = "fulltime"
    /\ call.result # "raised"

\* C8 (as claimed): a stop_fulltime call in Fulltime mode that returns gives
\* the output path if the output file exists on disk, and None otherwise.
StopFulltimeReturnsPathIffFileExists ==
    StopFulltimeReturned =>
        IF call.target \in out_files
        THEN call.result = "path" /\ call.path = call.target
        ELSE call.result = "None"

\* C8 (amended): a stop_fulltime call in Fulltime mode never gives None.  If
\* its stop step completes it returns the output path of the session whether
\* or not that file exists on disk; otherwise the exception of the forced
\* termination leaves the call and the session stays as it was.
StopFulltimeReturnsPathAlways ==
    [][(call'.op = "stop_fulltime" /\ current_mode = "fulltime") =>
            \/ /\ call'.result = "path"
               /\ call'.path = current_output_file
               /\ call'.path # NoPath
               /\ current_mode' = NoneMode
            \/ /\ call'.result = "raised"
               /\ LastStep(call'.trace) = Step("kill", 0, FALSE)
               /\ UNCHANGED recorder_state]_vars

\* C8 witness: stop_fulltime returned the path of a file that is not on disk
PathReturnedWithoutFile ==
    /\ StopFulltimeReturned
    /\ call.result = "path"
    /\ call.path \notin out_files

\* C9 (as claimed): a stop_fulltime call that ends a Fulltime session returns
\* the path given to the backend at start and invokes add_video exactly once,
\* with that path and mode "fulltime".
StopFulltimeRegistersExactlyOnce ==
    StopFulltimeReturned =>
        /\ call.path = call.target
        /\ Len(call.add_video) = 1
        /\ call.add_video[1].filepath = call.target
        /\ call.add_video[1].mode = "fulltime"

\* C9 (amended): whatever settings change between start and stop, a
\* stop_fulltime call in Fulltime mode whose stop step completes returns the
\* path given to the backend at start and ends the session; it invokes
\* add_video once, with that path and mode "fulltime", if the output file
\* exists on disk, and not at all if it does not.  A call whose forced
\* termination raises invokes nothing and adds no row.
StopFulltimeRegistersIfFileExists ==
    [][(call'.op = "stop_fulltime" /\ current_mode = "fulltime") =>
            \/ /\ call'.result = "path"
               /\ call'.path = ffmpeg_process.target
               /\ current_mode' = NoneMode
               /\ call'.add_video =
                      IF ffmpeg_process.target \in out_files
                      THEN <<[filepath |-> ffmpeg_process.target,
                              mode |-> "fulltime",
                              ok |-> call'.add_video[1].ok]>>
                      ELSE <<>>
               /\ db_rows' \in {db_rows,
                                db_rows \cup {[filepath |-> ffmpeg_process.target,
                                               mode |-> "fulltime"]}}
            \/ /\ call'.result = "raised"
               /\ call'.add_video = <<>>
               /\ db_rows' = db_rows]_vars

\* C9 witness: the output directory was changed during the session, and the
\* stop returned and registered the path of the directory set at start
RegisteredAfterSettingsChange ==
    /\ StopFulltimeReturned
    /\ call.path[1] # output_dir
    /\ Len(call.add_video) = 1
    /\ call.add_video[1].ok

\* C10 (as claimed): a save_buffer call in Buffering mode that finds no
\* segment file in the buffer directory returns None, runs no concatenation,
\* writes no manifest, registers nothing and leaves the mode Idle.
SaveBufferWithoutSegments ==
    [][(call'.op = "save_buffer" /\ current_mode = "buffer"
            /\ Segments(buffer_dir) = {}) =>
            /\ call'.result = "None"
            /\ call'.concat = "none"
            /\ call'.manifest = <<>>
            /\ ConcatFile \notin buffer_dir'
            /\ call'.add_video = <<>>
            /\ db_rows' = db_rows
            /\ current_mode' = NoneMode]_vars

\* a save_buffer call made in Buffering mode has just been made
SaveBufferCalled == call.op = "save_buffer" /\ call.pre_mode = "buffer"

\* C11 (as claimed): a save_buffer call whose concatenation exits with a
\* nonzero status or times out returns None and registers nothing, and the
\* buffer cleanup has run.
ConcatFailureGivesNoOutput ==
    (SaveBufferCalled /\ call.concat \in {"nonzero", "timeout"}) =>
        /\ call.result = "None"
        /\ call.add_video = <<>>
        /\ call.cleanups = 1

\* C12 (as claimed): every save_buffer call made in Buffering mode runs the
\* buffer cleanup before it returns, and after it the buffer directory holds
\* no segment, playlist or transport-stream file.
SaveBufferAlwaysCleansUp ==
    SaveBufferCalled =>
        /\ call.cleanups = 1
        /\ CleanupMatches(buffer_dir) = {}

\* C13 (as claimed): after a save_buffer call made in Buffering mode has
\* returned or raised, concat.txt does not exist.
ManifestRemovedAfterSave ==
    SaveBufferCalled => ConcatFile \notin buffer_dir

\* C14: the manifest a save_buffer call writes lists every segment file of
\* the buffer directory exactly once, one entry per line, in ascending order
\* of modification time, whatever the order of the filenames.
ManifestInMtimeOrder ==
    [][call'.manifest # <<>> =>
            LET m == call'.manifest
                S == Segments(buffer_dir)
            IN  /\ Len(m) = Cardinality(S)
                /\ {m[i] : i \in 1..Len(m)} = S
                /\ \A i, j \in 1..Len(m) : i < j => m[i].mtime <= m[j].mtime]_vars

\* C14 witness: a manifest whose order is not the order of the filenames
ManifestAgainstNameOrder ==
    /\ Len(call.manifest) = 2
    /\ call.manifest[1].slot > call.manifest[2].slot
    /\ call.manifest[1].mtime < call.manifest[2].mtime

\* C15 (as claimed): when start_buffer has spawned the backend, the buffer
\* directory holds no segment, playlist or transport-stream file.
BufferDrainedAtStart ==
    (call.op = "start_buffer" /\ call.spawn = "ok") =>
        CleanupMatches(buffer_dir) = {}

\* C16: the wrap count start_buffer gives the backend is the floor of the
\* buffer duration in seconds over the segment duration, plus 2 -- the
\* number n with (n - 2) * segment_duration <= seconds < (n - 1) *
\* segment_duration -- and it is 32 for 300 seconds and 10-second segments.
WrapCountIsFloorPlusTwo ==
    [][(call'.op = "start_buffer" /\ call'.spawn = "ok") =>
            LET n == ffmpeg_process'.max_segments
                seconds == buffer_duration_minutes * 60
            IN  /\ (n - 2) * segment_duration <= seconds
                /\ seconds < (n - 1) * segment_duration
                /\ (seconds = 300 /\ segment_duration = 10) => n = 32
                /\ \E r \in procs' : /\ r.pid = ffmpeg_process'.pid
                                     /\ r.max_segments = n]_vars

\* C16 witness: a buffer session started with the default five minutes
BufferStartedWithFiveMinutes ==
    /\ call.op = "start_buffer" /\ call.spawn = "ok"
    /\ buffer_duration_minutes * 60 = 300
    /\ ffmpeg_process.max_segments = 32

\* C18 (as claimed): a cancel_buffer call in Buffering mode runs the stop
\* step, leaves the controller Idle with no handle, leaves no segment file,
\* creates no output file and registers nothing.
CancelDiscardsEverything ==
    [][(call'.op = "cancel_buffer" /\ current_mode = "buffer") =>
            /\ call'.result = "None"
            /\ call'.trace # <<>>
            /\ current_mode' = NoneMode
            /\ ffmpeg_process' = NoProcess
            /\ Segments(buffer_dir') = {}
            /\ out_files' = out_files
            /\ call'.add_video = <<>>
            /\ db_rows' = db_rows]_vars

\* the add_video invocation of the last call failed
RegistrationFailed ==
    /\ call.op \in {"stop_fulltime", "save_buffer"}
    /\ call.add_video # <<>>
    /\ ~call.add_video[1].ok

\* C19: a stop_fulltime or save_buffer call whose add_video invocation
\* failed has not raised, has returned the path of the captured file, which
\* is on disk, and has left the controller Idle with no handle.
RegistrationFailureKeepsResult ==
    RegistrationFailed =>
        /\ call.result = "path"
        /\ call.path = call.add_video[1].filepath
        /\ call.path \in out_files
        /\ current_mode = NoneMode
        /\ ffmpeg_process = NoProcess

\* C19 witness: save_buffer joined the segments and the insert failed
SaveBufferRegistrationFailed ==
    /\ RegistrationFailed
    /\ call.op = "save_buffer" /\ call.concat = "ok"

\* the buffer session that is running
BufferBackends == {r \in RunningBackends : r.kind = "buffer"}

RECURSIVE SumSecs(_)
SumSecs(S) ==
    IF S = {} THEN 0
    ELSE LET f == CHOOSE x \in S : TRUE IN f.secs + SumSecs(S \ {f})

\* the seconds of capture in the segment files a backend has in the directory
Coverage(r) == SumSecs({f \in Segments(buffer_dir) : f.owner = r.pid})

\* the backend has run for at least the configured buffer duration
RanBufferDuration(r) == r.written * segment_duration >= buffer_duration_seconds

\* the part of C17 about the window: once the backend has run for the buffer
\* duration, the segment files it has in the directory hold at least that
\* many seconds, also while the file of a slot has just been reopened
RingCoversBufferDuration ==
    \A r \in BufferBackends :
        RanBufferDuration(r) => Coverage(r) >= buffer_duration_seconds

\* C17 (as claimed): during a buffer session the segment files present hold
\* at least the buffer duration once the backend has run that long, and the
\* directory never holds more segment files than the ring has slots.
RingWindowAndSize ==
    /\ RingCoversBufferDuration
    /\ \A r \in BufferBackends :
            Cardinality(Segments(buffer_dir)) <= r.max_segments

\* the tests that returned with status 0
PassedTests == {i \in 1..Len(encoder_tests) : encoder_tests[i].outcome = "ok"}

\* C20: the candidates are tested in the order h264_nvenc, h264_amf,
\* h264_qsv; once an encoder is selected it is the first candidate whose test
\* returned status 0, that test was the last one run, and if no test did
\* (nonzero status, timeout or other error each time) all three were run
\* and the encoder is libx264, which is never tested.
FirstWorkingEncoderSelected ==
    /\ Len(encoder_tests) <= Len(hw_encoders)
    /\ \A i \in 1..Len(encoder_tests) :
            /\ encoder_tests[i].encoder = hw_encoders[i]
            /\ encoder_tests[i].encoder # "libx264"
    /\ _hw_encoder = "unset" => PassedTests = {}
    /\ _hw_encoder # "unset" =>
            IF PassedTests = {}
            THEN /\ Len(encoder_tests) = Len(hw_encoders)
                 /\ _hw_encoder = "libx264"
            ELSE /\ PassedTests = {Len(encoder_tests)}
                 /\ _hw_encoder = hw_encoders[Len(encoder_tests)]

\* C20 witness: h264_amf was selected after h264_nvenc timed out, and
\* h264_qsv was not tested
AmfSelectedAfterNvencTimeout ==
    /\ _hw_encoder = "h264_amf"
    /\ Len(encoder_tests) = 2
    /\ encoder_tests[1].outcome = "timeout"

-----------------------------------------------------------------------------
(* The audio probe                                                         *)

\* the device listing returned and the probe has assigned self._audio_device
AudioProbed == audio_listing.outcome = "returned" /\ call.result # "raised"

\* the enumerated audio devices, in the order of the listing
EnumeratedDevices == audio_devices(audio_listing.lines)

\* the device's name contains the p-th priority term, whatever the case
HasTerm(device, p) == Matches(device, priority_names[p])
HasAnyTerm(device) == \E p \in 1..Len(priority_names) : HasTerm(device, p)

\* C21 as stated: the selected device is the first enumerated device whose
\* name contains any priority term; without such a device it is the first
\* enumerated device; with no device it is none.
AudioDeviceIsFirstEnumeratedMatch ==
    AudioProbed =>
        LET devices == EnumeratedDevices
            hits == {i \in 1..Len(devices) : HasAnyTerm(devices[i])}
        IN  _audio_device = IF hits # {} THEN devices[SetMin(hits)]
                            ELSE IF Len(devices) > 0 THEN devices[1]
                            ELSE NoDevice

\* C21 amended: when some enumerated device contains a priority term, the
\* selected device contains the earliest term of the priority list that any
\* enumerated device contains, and is the first enumerated device that
\* contains that term; without a matching device it is the first enumerated
\* device; with no device it is none.
AudioDeviceIsBestPriorityMatch ==
    AudioProbed =>
        LET devices == EnumeratedDevices
            N == 1..Len(devices)
        IN  CASE Len(devices) = 0 -> _audio_device = NoDevice
              [] Len(devices) > 0 /\ ~\E i \in N : HasAnyTerm(devices[i]) ->
                    _audio_device = devices[1]
              [] OTHER ->
                    \E p \in 1..Len(priority_names) : \E i \in N :
                        /\ _audio_device = devices[i]
                        /\ HasTerm(devices[i], p)
                        /\ \A j \in N : j < i => ~HasTerm(devices[j], p)
                        /\ \A q \in 1..(p - 1) : \A j \in N : ~HasTerm(devices[j], q)

\* C21 witness: "CABLE Output (VB-Audio)" is enumerated before "Stereo Mix
\* (Realtek)" and the Stereo Mix device is selected
StereoMixSelectedAfterCable ==
    /\ AudioProbed
    /\ EnumeratedDevices = << <<"CABLE", "Output", "(VB-Audio)">>,
                              <<"Stereo", "Mix", "(Realtek)">> >>
    /\ _audio_device = <<"Stereo", "Mix", "(Realtek)">>

\* __init__ has returned: both probes have assigned their attribute
Constructed == audio_listing # NoListing /\ _hw_encoder # "unset"

RaisedTests ==
    {i \in 1..Len(encoder_tests) : encoder_tests[i].outcome \in {"timeout", "error"}}

\* C22: no probe makes __init__ raise; a listing that timed out or failed
\* gives no audio device; an encoder test that timed out or failed does not
\* select its candidate (the next candidate is tested, or after the last
\* one libx264 is selected); construction can always go on until it is
\* complete, and then the recorder is Idle, holds no process and has one of
\* the four encoders selected.
ProbingNeverFailsConstruction ==
    /\ call.result # "raised"
    /\ audio_listing.outcome \in {"timeout", "error"} => _audio_device = NoDevice
    /\ \A i \in RaisedTests :
            /\ _hw_encoder # encoder_tests[i].encoder
            /\ i < Len(encoder_tests) \/ _hw_encoder \in {"unset", "libx264"}
    /\ ~Constructed => ENABLED ProbeNext
    /\ Constructed =>
            /\ current_mode = NoneMode
            /\ ffmpeg_process = NoProcess
            /\ _hw_encoder \in {hw_encoders[i] : i \in 1..Len(hw_encoders)}
                                    \cup {"libx264"}

\* C22 witness: construction is complete after the device listing timed
\* out, the first encoder test could not be run and the second timed out
ConstructedAfterProbeErrors ==
    /\ Constructed
    /\ audio_listing.outcome = "timeout"
    /\ Len(encoder_tests) = 3
    /\ encoder_tests[1].outcome = "error"
    /\ encoder_tests[2].outcome = "timeout"
    /\ _hw_encoder = "h264_qsv"

-----------------------------------------------------------------------------
(* The probe results over the lifetime of the recorder                     *)

\* the places of an argument in an argument list
Positions(cmd, arg) == {i \in 1..Len(cmd) : cmd[i] = arg}

\* the encoder an argument list names: the argument after its first -c:v
NamedEncoder(cmd) == cmd[SetMin(Positions(cmd, "-c:v")) + 1]

\* the audio input of an argument list for the device `device`
AudioInput(device) == <<"-f", "dshow", "-i", "audio=" \o Join(device)>>

\* this step hands the recorder a new backend process
SessionStarts == ffmpeg_process' # ffmpeg_process /\ ffmpeg_process' # NoProcess

\* C23: no step of a constructed recorder (start, stop, save, cancel, a
\* settings change, the backend exiting) changes the selected encoder or the
\* selected audio device, and the argument list of every session that
\* starts names that encoder and takes its audio from that device (from no
\* device when none was selected).
EncoderAndAudioFixed ==
    [][/\ UNCHANGED <<_hw_encoder, _audio_device>>
       /\ SessionStarts =>
            LET cmd == ffmpeg_process'.cmd
            IN  /\ Positions(cmd, "-c:v") # {}
                /\ NamedEncoder(cmd) = _hw_encoder
                /\ IF _audio_device = NoDevice
                   THEN Positions(cmd, "dshow") = {}
                   ELSE Contains(cmd, AudioInput(_audio_device))]_vars

\* C23 witness: the second session of a recorder that selected h264_qsv and
\* an audio device has started, after a setting was changed
SecondSessionSameEncoder ==
    /\ spawned = 2
    /\ call.op = "start_buffer"
    /\ call.result = "True"
    /\ settings_changes = 1
    /\ _hw_encoder = "h264_qsv"
    /\ _audio_device # NoDevice
    /\ NamedEncoder(ffmpeg_process.cmd) = "h264_qsv"

\* the segmentation parameters for a wrap count
SegmentParameters(max_segments) ==
    <<"-f", "segment", "-segment_time", ToString(segment_duration),
      "-segment_wrap", ToString(max_segments), "-reset_timestamps", "1">>

\* C24: in the argument list of the held backend, the segmentation
\* parameters (segment format, segment duration, wrap count, timestamp
\* reset) are present exactly when the target is segmented; the audio input
\* and the audio codec arguments are present exactly when an audio device
\* was selected; -c:v occurs once and is followed by the selected encoder;
\* the list ends with -y and the output target.
BackendArgumentList ==
    ffmpeg_process # NoProcess =>
        LET cmd == ffmpeg_process.cmd
            segmented == ffmpeg_process.kind = "buffer"
        IN  /\ Contains(cmd, SegmentParameters(ffmpeg_process.max_segments))
                    <=> segmented
            /\ ~segmented =>
                    \A arg \in {"segment", "-segment_time", "-segment_wrap",
                                 "-reset_timestamps"} : Positions(cmd, arg) = {}
            /\ Contains(cmd, AudioInput(_audio_device)) <=> _audio_device # NoDevice
            /\ Contains(cmd, <<"-c:a", "aac", "-b:a", "192k">>)
                    <=> _audio_device # NoDevice
            /\ _audio_device = NoDevice =>
                    Positions(cmd, "dshow") = {} /\ Positions(cmd, "-c:a") = {}
            /\ Cardinality(Positions(cmd, "-c:v")) = 1
            /\ NamedEncoder(cmd) = IF _hw_encoder \in SelectableEncoders
                                   THEN _hw_encoder ELSE "libx264"
            /\ Len(cmd) >= 2
            /\ cmd[Len(cmd) - 1] = "-y"
            /\ cmd[Len(cmd)] = PathArg(ffmpeg_process.target)

\* C24 witness: a segmented capture with an audio device and h264_nvenc
SegmentedCaptureWithAudio ==
    /\ ffmpeg_process.kind = "buffer"
    /\ ffmpeg_process.target = SegmentPattern
    /\ _audio_device # NoDevice
    /\ _hw_encoder = "h264_nvenc"

-----------------------------------------------------------------------------
(* The buffer duration                                                     *)

\* C25: whatever the configuration file held and whatever was written with
\* the buffer_duration_minutes setter or with set(key, value), the minutes
\* value the recorder reads is within 1..30, the seconds derived from it
\* within 60..1800, and the wrap count of a buffer session is the one of
\* such a duration.
BufferDurationWithinRange ==
    /\ buffer_duration_minutes \in 1..30
    /\ buffer_duration_seconds \in 60..1800
    /\ ffmpeg_process.kind = "buffer" =>
            ffmpeg_process.max_segments \in MaxSegmentsFor(60)..MaxSegmentsFor(1800)

-----------------------------------------------------------------------------
(* The process handle and the mode                                         *)

\* C30: between operations the recorder holds a process handle exactly
\* when its mode is "fulltime" or "buffer".
HandleHeldIffActive ==
    /\ current_mode \in {NoneMode, "fulltime", "buffer"}
    /\ (ffmpeg_process # NoProcess) <=> (current_mode \in {"fulltime", "buffer"})

\* C30 witness: a start whose spawn failed has returned, after a session
\* that was started and ended before it
IdleAfterSecondSpawnFailed ==
    /\ call.op \in StartOps
    /\ call.spawn = "failed"
    /\ spawned = 1
    /\ current_mode = NoneMode
    /\ ffmpeg_process = NoProcess

-----------------------------------------------------------------------------
(* The application's handlers                                              *)

\* C26: every handler that calls the recorder is executed by the Tk thread,
\* and by that thread one at a time: a hotkey, tray or button event only
\* adds a callback to the queue of the Tk loop.
RecorderCallsSerialized ==
    /\ \A r \in running : r.thread = "tk"
    /\ Cardinality(running) <= 1

\* C26 witness: while the Tk thread is inside the fulltime toggle asked for
\* from the tray, a toggle scheduled by the F10 hotkey and one scheduled
\* from the tray menu are waiting on the queue
EventsQueuedBehindHandler ==
    /\ tray_icon
    /\ running = {InHandler("tk", "win._toggle_fulltime")}
    /\ tk_queue = <<"app._toggle_buffer", "win._toggle_buffer">>

\* the thread of r leaves its handler in this step
Leaves(r) == r \in running /\ r \notin running'

\* C27 as stated: once the handler scheduled by Ctrl+Shift+Q has run, the
\* main window is eventually destroyed, which ends the main loop.
QuitHotkeyEndsMainLoop == (handled = "app._quit") ~> (root = "destroyed")

\* C28 as stated: a fulltime toggle calls start_fulltime when the recorder
\* is Idle (a session is then running unless the spawn failed) and calls
\* stop_fulltime when it is Fulltime, after which the recorder is Idle; a
\* buffer toggle calls start_buffer when Idle and save_buffer when
\* Buffering, after which the recorder is Idle; a toggle of one mode while
\* the other is active calls nothing and changes nothing of the recorder.
\* The handlers of the hotkeys, the buttons and the tray menu alike.
TogglesStartAndStop ==
    [][\A r \in running : Leaves(r) =>
        /\ r.handler \in FulltimeToggles =>
              CASE current_mode = NoneMode ->
                      /\ call'.op = "start_fulltime"
                      /\ current_mode' = "fulltime" \/ call'.spawn = "failed"
                [] current_mode = "fulltime" ->
                      /\ call'.op = "stop_fulltime"
                      /\ current_mode' = NoneMode
                [] OTHER -> NoRecorderCall
        /\ r.handler \in BufferToggles =>
              CASE current_mode = NoneMode ->
                      /\ call'.op = "start_buffer"
                      /\ current_mode' = "buffer" \/ call'.spawn = "failed"
                [] current_mode = "buffer" ->
                      /\ call'.op = "save_buffer"
                      /\ current_mode' = NoneMode
                [] OTHER -> NoRecorderCall]_vars

\* C29 as stated: the quit handler (_quit scheduled by the hotkey, _on_close
\* called for the tray's Quit and for the window close) ends a Fulltime
\* session with stop_fulltime and a Buffering session with cancel_buffer,
\* which registers nothing and leaves no segment; when it has run the
\* recorder is Idle and holds no process handle.
QuitEndsAnySession ==
    [][\A r \in running : (Leaves(r) /\ r.handler \in QuitHandlers) =>
        /\ current_mode = "fulltime" => call'.op = "stop_fulltime"
        /\ current_mode = "buffer" =>
                /\ call'.op = "cancel_buffer"
                /\ db_rows' = db_rows
                /\ Segments(buffer_dir') = {}
        /\ current_mode' = NoneMode
        /\ ffmpeg_process' = NoProcess]_vars

-----------------------------------------------------------------------------
(* The output path, the backend after a stop, and the paths of recordings  *)

\* C31 as stated: the output path is set only while a Fulltime session is
\* active -- whenever the mode is Idle or Buffering, current_output_file is
\* None, also after a start_fulltime whose spawn failed.
OutputPathOnlyWhileFulltime ==
    current_mode \in {NoneMode, "buffer"} => current_output_file = NoPath

\* C32 as stated: when stop_fulltime, save_buffer or cancel_buffer returns
\* (the step in which the recorder gives up its process handle), the backend
\* of that session is no longer alive, on the forced-termination path too.
BackendTerminatedWhenStopReturns ==
    [][(ffmpeg_process # NoProcess /\ ffmpeg_process' = NoProcess) =>
            ~\E r \in procs' : r.pid = ffmpeg_process.pid]_vars

\* the paths of the recordings made so far: the files under the output
\* directories and the file paths of the videos table
RecordingPaths == out_files \cup {r.filepath : r \in db_rows}

\* C33 as stated: the path chosen by a start_fulltime that spawns its
\* backend, and the path a save_buffer hands to the concatenation, is the
\* path of no earlier recording, so that nothing is overwritten and the
\* insert into the videos table never meets an existing filepath.
OutputPathsNeverReused ==
    [][/\ (call'.op = "start_fulltime" /\ call'.spawn = "ok") =>
              current_output_file' \notin RecordingPaths
       /\ (call'.op = "save_buffer" /\ call'.concat # "none") =>
              OutputPath(output_dir, "replay", _get_timestamp)
                  \notin RecordingPaths]_vars

\* C34 as stated: every segment in the manifest of a save_buffer was
\* written by the backend of the session being saved.
ManifestHoldsOwnSegmentsOnly ==
    [][call'.op = "save_buffer" =>
            \A i \in 1..Len(call'.manifest) :
                call'.manifest[i].owner = ffmpeg_process.pid]_vars

-----------------------------------------------------------------------------
(* The buffer duration and the session that is running                     *)

\* the position of "-segment_wrap" in an argument list (0: not there)
WrapPosition(cmd) ==
    IF \E i \in 1..Len(cmd) : cmd[i] = "-segment_wrap"
    THEN CHOOSE i \in 1..Len(cmd) : cmd[i] = "-segment_wrap"
    ELSE 0

\* C36: a step that changes the buffer duration changes nothing of the
\* recorder or of its backends; as long as the recorder holds a process
\* handle, the handle, the arguments the backend was given and with them
\* its wrap count stay as start_buffer made them; and a start_buffer that
\* spawns gives its backend the wrap count of the duration set at that
\* moment, floor(minutes * 60 / 10) + 2.
DurationChangeLeavesSessionAlone ==
    [][/\ buffer_duration_minutes' # buffer_duration_minutes =>
              UNCHANGED <<recorder_state, backend_state>>
       /\ (ffmpeg_process # NoProcess /\ ffmpeg_process' # NoProcess) =>
              ffmpeg_process' = ffmpeg_process
       /\ \A r \in procs : \A q \in procs' :
              q.pid = r.pid => q.max_segments = r.max_segments
       /\ (call'.op = "start_buffer" /\ call'.spawn = "ok") =>
              LET wrap == (buffer_duration_minutes * 60) \div segment_duration + 2
                  cmd == ffmpeg_process'.cmd
              IN  /\ ffmpeg_process'.max_segments = wrap
                  /\ \E r \in procs' : r.pid = ffmpeg_process'.pid
                                        /\ r.max_segments = wrap
                  /\ WrapPosition(cmd) > 0
                  /\ cmd[WrapPosition(cmd) + 1] = ToString(wrap)]_vars

\* C36 witness: a Buffering session is active and the duration was changed
\* after it started -- the wrap count of its backend is not the one of the
\* duration now set
DurationChangedDuringBuffering ==
    /\ current_mode = "buffer"
    /\ settings_changes = 1
    /\ WrapPosition(ffmpeg_process.cmd) > 0
    /\ ffmpeg_process.cmd[WrapPosition(ffmpeg_process.cmd) + 1]
            # ToString((buffer_duration_minutes * 60) \div segment_duration + 2)

-----------------------------------------------------------------------------
(* The overlay                                                             *)

\* what the overlay shows: the text of its label while its window exists
Shown == IF overlay_window = "alive" THEN overlay_status ELSE "nothing"

\* the status that stands for a mode
StatusOf(mode) ==
    CASE mode = "fulltime" -> "REC"
      [] mode = "buffer" -> "BUF"
      [] OTHER -> "IDLE"

\* C35 as stated: when a toggle handler (of a hotkey, a button or the tray
\* menu) has finished, the overlay shows the status of the recorder's mode:
\* IDLE when Idle, REC when Fulltime, BUF when Buffering.
OverlayShowsMode ==
    [][\A r \in running :
        (Leaves(r) /\ r.handler \in FulltimeToggles \cup BufferToggles) =>
            Shown' = StatusOf(current_mode')]_vars

====
